---------------------------- MODULE Spec2Model ----------------------------
(***************************************************************************)
(* Model of src/src/core/analytics.py: the file registry, the chunk        *)
(* performance ledger, the file aggregator, the insight engine and the     *)
(* reference parser.                                                       *)
(*                                                                         *)
(* Strings the code takes apart (chunk keys, source references, question   *)
(* texts, file hashes) are sequences of one-character strings.  Filenames  *)
(* are only tested for truth, compared and hashed, so they are atoms.      *)
(* A Python dict is a sequence of [key, val] entries in insertion order.   *)
(* A float accuracy is the exact fraction [num, den].                      *)
(***************************************************************************)
EXTENDS Integers, Sequences, FiniteSets, TLC

VARIABLES
    state,   \* the persisted State of the memory collaborator
    saves,   \* number of save_state calls made so far
    clock,   \* datetime.now()
    calls,   \* number of mutating public calls made so far
    ret,     \* the last public call: its name, arguments and return value
    tally,   \* history: per key, the record_quiz_answer calls completed
    hist,    \* history: per key, every question entry ever appended
    procs    \* the callers in flight: position, arguments, borrowed State

vars == <<state, saves, clock, calls, ret, tally, hist, procs>>

----------------------------------------------------------------------------
(* Bounds of the model *)

MaxCalls == 3
MaxHistCalls == 3
MaxFileCalls == 3
MaxPerf == 2
MaxConcCalls == 3
MaxPieces == 3
MaxRefCalls == 2
MaxAggCalls == 2
MaxFrameCalls == 3

(* Constants of the program *)

KeepQuestions == 10
MaxQuestionLen == 200
SlugLen == 50

----------------------------------------------------------------------------
(* Python values *)

None == "<None>"

\* bool(x) of an Optional[str] filename
Truthy(x) == x # None /\ x # ""

UNKNOWN_FILE == "unknown_file"

\* "_chunk_"
CHUNK_SEP == <<"_", "c", "h", "u", "n", "k", "_">>

\* "unknown"
UNKNOWN == <<"u", "n", "k", "n", "o", "w", "n">>

Min(a, b) == IF a < b THEN a ELSE b

\* s[:n]
Take(s, n) == SubSeq(s, 1, Min(n, Len(s)))

\* s[-n:]
LastN(s, n) == IF Len(s) <= n THEN s ELSE SubSeq(s, Len(s) - n + 1, Len(s))

\* whether p occurs in s at index i
MatchAt(s, p, i) ==
    /\ i >= 1
    /\ i + Len(p) - 1 <= Len(s)
    /\ \A j \in 1..Len(p) : s[i + j - 1] = p[j]

\* s.find(p) + 1: the index of the first occurrence of p in s, 0 when none
Find(s, p) ==
    LET hits == {i \in 1..Len(s) : MatchAt(s, p, i)}
    IN  IF hits = {} THEN 0 ELSE CHOOSE i \in hits : \A j \in hits : i <= j

\* p in s
Contains(s, p) == Find(s, p) # 0

\* s.split(p)[0]
SplitHead(s, p) == IF Contains(s, p) THEN SubSeq(s, 1, Find(s, p) - 1) ELSE s

----------------------------------------------------------------------------
(* dict, as a sequence of [key, val] entries in insertion order *)

Keys(d) == {d[i].key : i \in 1..Len(d)}

Has(d, k) == k \in Keys(d)

IndexOf(d, k) == CHOOSE i \in 1..Len(d) : d[i].key = k

Get(d, k) == d[IndexOf(d, k)].val

\* d[k] = v: a new key goes last, an old key keeps its place
Put(d, k, v) ==
    IF Has(d, k)
    THEN [d EXCEPT ![IndexOf(d, k)] = [key |-> k, val |-> v]]
    ELSE Append(d, [key |-> k, val |-> v])

----------------------------------------------------------------------------
(* The State object of the memory collaborator.  has_fm / has_cp are       *)
(* FALSE when the attribute is missing or None (old state files).          *)

EmptyState ==
    [has_fm |-> TRUE, file_mapping |-> <<>>,
     has_cp |-> TRUE, chunk_performance |-> <<>>]

LegacyState ==
    [has_fm |-> FALSE, file_mapping |-> <<>>,
     has_cp |-> FALSE, chunk_performance |-> <<>>]

\* load_state(username): the caller gets the persisted snapshot
load_state(persisted) == persisted

\* save_state(state, username): the snapshot replaces the persisted one
save_state(snapshot) == snapshot

----------------------------------------------------------------------------
(* record_quiz_answer, lines 59-100: the in-memory mutation of the State *)

NewRecord(source_reference, filename) ==
    [correct |-> 0, incorrect |-> 0, attempts |-> 0, last_attempt |-> 0,
     source_reference |-> source_reference, filename |-> filename,
     questions |-> <<>>]

\* key = chunk_id if chunk_id else source_reference
RecordKey(chunk_id, source_reference) ==
    IF chunk_id # <<>> THEN chunk_id ELSE source_reference

\* lines 68-80 with the test of line 79 cut to "elif filename": a supplied
\* filename replaces the stored one
EnsureRecordOverwrite(cp, key, source_reference, filename) ==
    IF ~Has(cp, key)
    THEN Put(cp, key, NewRecord(source_reference, filename))
    ELSE IF Truthy(filename)
         THEN Put(cp, key, [Get(cp, key) EXCEPT !.filename = filename])
         ELSE cp

\* lines 68-80
EnsureRecord(cp, key, source_reference, filename) ==
    IF ~Has(cp, key)
    THEN Put(cp, key, NewRecord(source_reference, filename))
    ELSE IF Truthy(filename) /\ ~Truthy(Get(cp, key).filename)
         THEN Put(cp, key, [Get(cp, key) EXCEPT !.filename = filename])
         ELSE cp

\* lines 83-89 with the else of line 86 lost: incorrect counts every answer
UpdateCountersNoElse(rec, is_correct, now) ==
    [rec EXCEPT !.attempts = @ + 1,
                !.correct = IF is_correct THEN @ + 1 ELSE @,
                !.incorrect = @ + 1,
                !.last_attempt = now]

\* lines 83-89
UpdateCounters(rec, is_correct, now) ==
    [rec EXCEPT !.attempts = @ + 1,
                !.correct = IF is_correct THEN @ + 1 ELSE @,
                !.incorrect = IF is_correct THEN @ ELSE @ + 1,
                !.last_attempt = now]

QuestionEntry(question_text, is_correct, now) ==
    [question |-> Take(question_text, MaxQuestionLen),
     correct |-> is_correct, timestamp |-> now]

\* lines 99-100 with the slice taken from the front: [:10] for [-10:]
TrimQuestionsFront(qs) ==
    IF Len(qs) > KeepQuestions THEN Take(qs, KeepQuestions) ELSE qs

\* lines 99-100
TrimQuestions(qs) ==
    IF Len(qs) > KeepQuestions THEN LastN(qs, KeepQuestions) ELSE qs

\* lines 92-100
StoreQuestion(rec, question_text, is_correct, now) ==
    IF question_text # <<>>
    THEN [rec EXCEPT !.questions =
              TrimQuestions(Append(@, QuestionEntry(question_text, is_correct, now)))]
    ELSE rec

RecordMutate(st, chunk_id, source_reference, is_correct, question_text, filename, now) ==
    LET key == RecordKey(chunk_id, source_reference)
        cp0 == IF st.has_cp THEN st.chunk_performance ELSE <<>>
        cp1 == EnsureRecord(cp0, key, source_reference, filename)
        rec == StoreQuestion(UpdateCounters(Get(cp1, key), is_correct, now),
                             question_text, is_correct, now)
    IN  [st EXCEPT !.has_cp = TRUE, !.chunk_performance = Put(cp1, key, rec)]

----------------------------------------------------------------------------
(* Accuracy: correct / attempts * 100 as an exact fraction; a division by  *)
(* zero (ZeroDivisionError) shows as a fraction with den = 0.              *)

Frac(n, d) == [num |-> n, den |-> d]

ZeroAccuracy == Frac(0, 1)

\* (correct / attempts * 100) if attempts > 0 else 0.0
Accuracy(correct, attempts) ==
    IF attempts > 0 THEN Frac(correct * 100, attempts) ELSE ZeroAccuracy

\* a < b for fractions with positive denominators
FracLess(a, b) == a.num * b.den < b.num * a.den

\* accuracy < threshold, accuracy >= threshold
BelowThreshold(a, threshold) == a.num < threshold * a.den

AtLeastThreshold(a, threshold) == a.num >= threshold * a.den

----------------------------------------------------------------------------
(* get_chunk_performance, lines 120-145 *)

get_chunk_performance(st, chunk_id) ==
    IF ~st.has_cp
    THEN [correct |-> 0, incorrect |-> 0, attempts |-> 0,
          accuracy |-> ZeroAccuracy, source_reference |-> <<>>]
    ELSE IF ~Has(st.chunk_performance, chunk_id)
         THEN [correct |-> 0, incorrect |-> 0, attempts |-> 0,
               accuracy |-> Accuracy(0, 0), source_reference |-> <<>>,
               last_attempt |-> 0]
         ELSE LET perf == Get(st.chunk_performance, chunk_id)
              IN  [correct |-> perf.correct, incorrect |-> perf.incorrect,
                   attempts |-> perf.attempts,
                   accuracy |-> Accuracy(perf.correct, perf.attempts),
                   source_reference |-> perf.source_reference,
                   last_attempt |-> perf.last_attempt]

(* get_all_chunk_performance, lines 158-180 *)

Metrics(perf) ==
    [correct |-> perf.correct, incorrect |-> perf.incorrect,
     attempts |-> perf.attempts,
     accuracy |-> Accuracy(perf.correct, perf.attempts),
     source_reference |-> perf.source_reference,
     filename |-> perf.filename, last_attempt |-> perf.last_attempt]

get_all_chunk_performance(st) ==
    IF ~st.has_cp
    THEN <<>>
    ELSE [i \in 1..Len(st.chunk_performance) |->
             [key |-> st.chunk_performance[i].key,
              val |-> Metrics(st.chunk_performance[i].val)]]

----------------------------------------------------------------------------
(* get_weak_areas, lines 351-369, and get_strong_areas, lines 384-402 *)

Area(chunk_id, perf) ==
    [chunk_id |-> chunk_id, source_reference |-> perf.source_reference,
     accuracy |-> perf.accuracy, correct |-> perf.correct,
     incorrect |-> perf.incorrect, attempts |-> perf.attempts,
     last_attempt |-> perf.last_attempt]

\* list.sort(key=accuracy): stable, ascending
RECURSIVE InsertAscending(_, _)
InsertAscending(sorted, x) ==
    IF sorted = <<>> THEN <<x>>
    ELSE IF FracLess(x.accuracy, sorted[Len(sorted)].accuracy)
         THEN Append(InsertAscending(SubSeq(sorted, 1, Len(sorted) - 1), x),
                     sorted[Len(sorted)])
         ELSE Append(sorted, x)

\* list.sort(key=accuracy, reverse=True): stable, descending
RECURSIVE InsertDescending(_, _)
InsertDescending(sorted, x) ==
    IF sorted = <<>> THEN <<x>>
    ELSE IF FracLess(sorted[Len(sorted)].accuracy, x.accuracy)
         THEN Append(InsertDescending(SubSeq(sorted, 1, Len(sorted) - 1), x),
                     sorted[Len(sorted)])
         ELSE Append(sorted, x)

RECURSIVE SortAscending(_)
SortAscending(s) ==
    IF s = <<>> THEN <<>>
    ELSE InsertAscending(SortAscending(SubSeq(s, 1, Len(s) - 1)), s[Len(s)])

RECURSIVE SortDescending(_)
SortDescending(s) ==
    IF s = <<>> THEN <<>>
    ELSE InsertDescending(SortDescending(SubSeq(s, 1, Len(s) - 1)), s[Len(s)])

\* line 355 with the comparison turned round
IsWeakAbove(perf, threshold, min_attempts) ==
    perf.attempts >= min_attempts /\ ~BelowThreshold(perf.accuracy, threshold)

\* line 355
IsWeak(perf, threshold, min_attempts) ==
    perf.attempts >= min_attempts /\ BelowThreshold(perf.accuracy, threshold)

\* line 388
IsStrong(perf, threshold, min_attempts) ==
    perf.attempts >= min_attempts /\ AtLeastThreshold(perf.accuracy, threshold)

RECURSIVE WeakFilter(_, _, _)
WeakFilter(all_perf, threshold, min_attempts) ==
    IF all_perf = <<>> THEN <<>>
    ELSE LET rest == WeakFilter(SubSeq(all_perf, 1, Len(all_perf) - 1),
                                threshold, min_attempts)
             e == all_perf[Len(all_perf)]
         IN  IF IsWeak(e.val, threshold, min_attempts)
             THEN Append(rest, Area(e.key, e.val)) ELSE rest

RECURSIVE StrongFilter(_, _, _)
StrongFilter(all_perf, threshold, min_attempts) ==
    IF all_perf = <<>> THEN <<>>
    ELSE LET rest == StrongFilter(SubSeq(all_perf, 1, Len(all_perf) - 1),
                                  threshold, min_attempts)
             e == all_perf[Len(all_perf)]
         IN  IF IsStrong(e.val, threshold, min_attempts)
             THEN Append(rest, Area(e.key, e.val)) ELSE rest

get_weak_areas(st, threshold, min_attempts) ==
    SortAscending(WeakFilter(get_all_chunk_performance(st), threshold, min_attempts))

get_strong_areas(st, threshold, min_attempts) ==
    SortDescending(StrongFilter(get_all_chunk_performance(st), threshold, min_attempts))

----------------------------------------------------------------------------
(* get_performance_summary, lines 415-441 *)

RECURSIVE SumAttempts(_)
SumAttempts(d) ==
    IF d = <<>> THEN 0 ELSE SumAttempts(Tail(d)) + Head(d).val.attempts

RECURSIVE SumCorrect(_)
SumCorrect(d) ==
    IF d = <<>> THEN 0 ELSE SumCorrect(Tail(d)) + Head(d).val.correct

RECURSIVE SumIncorrect(_)
SumIncorrect(d) ==
    IF d = <<>> THEN 0 ELSE SumIncorrect(Tail(d)) + Head(d).val.incorrect

CountWithData(d) == Cardinality({i \in 1..Len(d) : d[i].val.attempts > 0})

\* line 432 as the mean of the chunks' accuracies
RECURSIVE SumAccuracy(_)
SumAccuracy(d) ==
    IF d = <<>> THEN Frac(0, 1)
    ELSE LET a == Head(d).val.accuracy
             b == SumAccuracy(Tail(d))
         IN  Frac(a.num * b.den + b.num * a.den, a.den * b.den)

MeanAccuracy(all_perf) ==
    Frac(SumAccuracy(all_perf).num, SumAccuracy(all_perf).den * Len(all_perf))

\* line 432
OverallAccuracy(all_perf) == Accuracy(SumCorrect(all_perf), SumAttempts(all_perf))

get_performance_summary(st) ==
    LET all_perf == get_all_chunk_performance(st)
    IN  IF all_perf = <<>>
        THEN [total_chunks |-> 0, total_attempts |-> 0, total_correct |-> 0,
              total_incorrect |-> 0, overall_accuracy |-> ZeroAccuracy,
              chunks_with_data |-> 0]
        ELSE [total_chunks |-> Len(all_perf),
              total_attempts |-> SumAttempts(all_perf),
              total_correct |-> SumCorrect(all_perf),
              total_incorrect |-> SumIncorrect(all_perf),
              overall_accuracy |-> OverallAccuracy(all_perf),
              chunks_with_data |-> CountWithData(all_perf)]

----------------------------------------------------------------------------
(* File identifier: hashlib.md5(filename.encode()).hexdigest()[:8].  The   *)
(* table holds the digests of the filenames of the model; "x.pdf" and      *)
(* "y.pdf" stand for two filenames whose digests share the first 8 hex     *)
(* characters (a 32-bit prefix is not injective).                          *)

FileHash(filename) ==
    CASE filename = "a.pdf" -> <<"4", "9", "b", "7", "3", "2", "e", "3">>
      [] filename = "b.pdf" -> <<"6", "f", "4", "8", "c", "2", "5", "5">>
      [] filename = "unknown_file" -> <<"1", "a", "1", "b", "d", "3", "0", "6">>
      [] filename = "" -> <<"d", "4", "1", "d", "8", "c", "d", "9">>
      [] filename = "x.pdf" -> <<"0", "0", "c", "0", "f", "f", "e", "e">>
      [] filename = "y.pdf" -> <<"0", "0", "c", "0", "f", "f", "e", "e">>

\* state.file_mapping, {} when the attribute is missing or None
MappingOf(st) == IF st.has_fm THEN st.file_mapping ELSE <<>>

\* state.file_mapping.get(file_hash)
MappingGet(st, file_hash) ==
    IF Has(st.file_mapping, file_hash) THEN Get(st.file_mapping, file_hash) ELSE None

(* register_file with the test of line 33 lost: every call stores and saves *)

register_file_always(persisted, filename) ==
    LET st == load_state(persisted)
        file_hash == FileHash(filename)
    IN  [state |-> save_state([st EXCEPT !.has_fm = TRUE,
                       !.file_mapping = Put(MappingOf(st), file_hash, filename)]),
         saved |-> TRUE, value |-> file_hash]

(* register_file, lines 23-38: the persisted State after the call, whether *)
(* save_state was called, and the value returned                           *)

register_file(persisted, filename) ==
    LET st == load_state(persisted)
        file_hash == FileHash(filename)
        fm == MappingOf(st)
    IN  IF ~Has(fm, file_hash)
        THEN [state |-> save_state([st EXCEPT !.has_fm = TRUE,
                                   !.file_mapping = Put(fm, file_hash, filename)]),
              saved |-> TRUE, value |-> file_hash]
        ELSE [state |-> st, saved |-> FALSE, value |-> file_hash]

----------------------------------------------------------------------------
(* backfill_file_mapping_from_chunks, lines 223-244 *)

\* line 233
IsRealFilename(filename) == Truthy(filename) /\ filename # UNKNOWN_FILE

\* lines 232-240 with the test of line 238 lost: the last filename wins
BackfillStepOverwrite(fm, chunk_id, perf) ==
    IF /\ IsRealFilename(perf.filename)
       /\ Contains(chunk_id, CHUNK_SEP)
    THEN Put(fm, SplitHead(chunk_id, CHUNK_SEP), perf.filename)
    ELSE fm

\* lines 232-240: one turn of the loop over state.chunk_performance
BackfillStep(fm, chunk_id, perf) ==
    IF /\ IsRealFilename(perf.filename)
       /\ Contains(chunk_id, CHUNK_SEP)
       /\ ~Has(fm, SplitHead(chunk_id, CHUNK_SEP))
    THEN Put(fm, SplitHead(chunk_id, CHUNK_SEP), perf.filename)
    ELSE fm

RECURSIVE BackfillLoop(_, _)
BackfillLoop(fm, cp) ==
    IF cp = <<>> THEN fm
    ELSE BackfillLoop(BackfillStep(fm, Head(cp).key, Head(cp).val), Tail(cp))

\* the persisted State after the call, and whether save_state was called
backfill_file_mapping_from_chunks(st) ==
    IF ~st.has_cp \/ st.chunk_performance = <<>>
    THEN [state |-> st, saved |-> FALSE]
    ELSE LET fm == BackfillLoop(MappingOf(st), st.chunk_performance)
             updated == fm # MappingOf(st)
         IN  [state |-> IF updated
                        THEN save_state([st EXCEPT !.has_fm = TRUE, !.file_mapping = fm])
                        ELSE st,
              saved |-> updated]

----------------------------------------------------------------------------
(* group_chunks_by_file, lines 259-336.  The loop carries the persisted    *)
(* State (each load_state reads it, the save_state of line 303 writes it), *)
(* the files dict and the number of save_state calls.                      *)

\* lines 265-271
FileHashOf(chunk_id) ==
    IF Contains(chunk_id, CHUNK_SEP) THEN SplitHead(chunk_id, CHUNK_SEP) ELSE UNKNOWN

\* lines 276-281
SeedFilename(persisted, file_hash, perf) ==
    IF ~Truthy(perf.filename) \/ perf.filename = UNKNOWN_FILE
    THEN LET st == load_state(persisted)
         IN  IF st.has_fm /\ st.file_mapping # <<>>
             THEN MappingGet(st, file_hash)
             ELSE perf.filename
    ELSE perf.filename

\* lines 283-291
NewRollup(file_hash, filename) ==
    [file_hash |-> file_hash, filename |-> filename, chunks |-> <<>>,
     total_attempts |-> 0, total_correct |-> 0, total_incorrect |-> 0,
     chunks_with_data |-> 0]

\* lines 297-303: the persisted State after the write-back, and whether it saved
AutoRegister(persisted, file_hash, filename) ==
    IF filename # UNKNOWN_FILE
    THEN LET st == load_state(persisted)
             fm == MappingOf(st)
         IN  IF ~Has(fm, file_hash)
             THEN [state |-> save_state([st EXCEPT !.has_fm = TRUE,
                                 !.file_mapping = Put(fm, file_hash, filename)]),
                   saved |-> TRUE]
             ELSE [state |-> persisted, saved |-> FALSE]
    ELSE [state |-> persisted, saved |-> FALSE]

\* lines 306-311
MappedFilename(persisted, file_hash, current) ==
    LET st == load_state(persisted)
    IN  IF st.has_fm /\ st.file_mapping # <<>> /\ Truthy(MappingGet(st, file_hash))
        THEN MappingGet(st, file_hash)
        ELSE current

\* lines 314-321 with = for += in line 317
AddChunkAssign(rollup, chunk_id, perf) ==
    [rollup EXCEPT !.chunks = Put(@, chunk_id, perf),
                   !.total_attempts = perf.attempts,
                   !.total_correct = @ + perf.correct,
                   !.total_incorrect = @ + perf.incorrect,
                   !.chunks_with_data = IF perf.attempts > 0 THEN @ + 1 ELSE @]

\* lines 314-321
AddChunk(rollup, chunk_id, perf) ==
    [rollup EXCEPT !.chunks = Put(@, chunk_id, perf),
                   !.total_attempts = @ + perf.attempts,
                   !.total_correct = @ + perf.correct,
                   !.total_incorrect = @ + perf.incorrect,
                   !.chunks_with_data = IF perf.attempts > 0 THEN @ + 1 ELSE @]

\* lines 263-321: one turn of the loop over all_perf
GroupStep(acc, chunk_id, perf) ==
    LET file_hash == FileHashOf(chunk_id)
        files == acc.files
    IN  IF ~Has(files, file_hash)
        THEN [acc EXCEPT !.files =
                 Put(files, file_hash,
                     AddChunk(NewRollup(file_hash,
                                        SeedFilename(acc.state, file_hash, perf)),
                              chunk_id, perf))]
        ELSE LET rollup == Get(files, file_hash)
             IN  IF Truthy(perf.filename) /\ ~Truthy(rollup.filename)
                 THEN LET w == AutoRegister(acc.state, file_hash, perf.filename)
                      IN  [state |-> w.state,
                           saves |-> IF w.saved THEN acc.saves + 1 ELSE acc.saves,
                           files |-> Put(files, file_hash,
                                         AddChunk([rollup EXCEPT !.filename = perf.filename],
                                                  chunk_id, perf))]
                 ELSE IF ~Truthy(rollup.filename) \/ rollup.filename = UNKNOWN_FILE
                      THEN [acc EXCEPT !.files =
                               Put(files, file_hash,
                                   AddChunk([rollup EXCEPT !.filename =
                                                MappedFilename(acc.state, file_hash, @)],
                                            chunk_id, perf))]
                      ELSE [acc EXCEPT !.files =
                               Put(files, file_hash, AddChunk(rollup, chunk_id, perf))]

RECURSIVE GroupLoop(_, _)
GroupLoop(acc, all_perf) ==
    IF all_perf = <<>> THEN acc
    ELSE GroupLoop(GroupStep(acc, Head(all_perf).key, Head(all_perf).val),
                   Tail(all_perf))

Max(a, b) == IF a > b THEN a ELSE b

\* lines 330-334: max of the truthy last_attempt values, None (0) when none
RECURSIVE LastAttempt(_)
LastAttempt(chunks) ==
    IF chunks = <<>> THEN 0
    ELSE Max(Head(chunks).val.last_attempt, LastAttempt(Tail(chunks)))

\* lines 324-334
Finish(rollup) ==
    [file_hash |-> rollup.file_hash, filename |-> rollup.filename,
     chunks |-> rollup.chunks, total_attempts |-> rollup.total_attempts,
     total_correct |-> rollup.total_correct,
     total_incorrect |-> rollup.total_incorrect,
     chunks_with_data |-> rollup.chunks_with_data,
     accuracy |-> Accuracy(rollup.total_correct, rollup.total_attempts),
     last_attempt |-> LastAttempt(rollup.chunks)]

\* the persisted State after the call, the save_state calls made, the value returned
group_chunks_by_file(persisted, all_perf) ==
    LET b == backfill_file_mapping_from_chunks(persisted)
        acc == GroupLoop([state |-> b.state,
                          saves |-> IF b.saved THEN 1 ELSE 0,
                          files |-> <<>>], all_perf)
    IN  [state |-> acc.state, saves |-> acc.saves,
         value |-> [i \in 1..Len(acc.files) |->
                       [key |-> acc.files[i].key, val |-> Finish(acc.files[i].val)]]]

----------------------------------------------------------------------------
(* extract_chunk_id_from_reference, lines 459-470 *)

IsSpace(c) == c \in {" ", "\t", "\n"}

IsDigit(c) == c \in {"0", "1", "2", "3", "4", "5", "6", "7", "8", "9"}

\* str.lower() of one character
LowerChar(c) ==
    CASE c = "C" -> "c"
      [] c = "X" -> "x"
      [] OTHER -> c

\* the index of the first character at or after i that is not whitespace
RECURSIVE SkipSpaces(_, _)
SkipSpaces(s, i) ==
    IF i <= Len(s) /\ IsSpace(s[i]) THEN SkipSpaces(s, i + 1) ELSE i

\* the index after the run of digits that starts at i
RECURSIVE SkipDigits(_, _)
SkipDigits(s, i) ==
    IF i <= Len(s) /\ IsDigit(s[i]) THEN SkipDigits(s, i + 1) ELSE i

\* whether [Cc]hunk\s*(\d+) matches at index i
ChunkMatchAt(s, i) ==
    /\ i <= Len(s)
    /\ s[i] \in {"C", "c"}
    /\ MatchAt(s, <<"h", "u", "n", "k">>, i + 1)
    /\ SkipSpaces(s, i + 5) <= Len(s)
    /\ IsDigit(s[SkipSpaces(s, i + 5)])

\* re.search(r'[Cc]hunk\s*(\d+)', s): group(1) of the leftmost match, or "unknown"
ChunkNum(s) ==
    LET hits == {i \in 1..Len(s) : ChunkMatchAt(s, i)}
    IN  IF hits = {} THEN UNKNOWN
        ELSE LET i == CHOOSE h \in hits : \A j \in hits : h <= j
                 d == SkipSpaces(s, i + 5)
             IN  SubSeq(s, d, SkipDigits(s, d) - 1)

\* source_reference[:50].replace(" ", "_").lower()
Slug(source_reference) ==
    LET head == Take(source_reference, SlugLen)
    IN  [i \in 1..Len(head) |->
            LowerChar(IF head[i] = " " THEN "_" ELSE head[i])]

extract_chunk_id_from_reference(source_reference, filename) ==
    IF Truthy(filename)
    THEN FileHash(filename) \o CHUNK_SEP \o ChunkNum(source_reference)
    ELSE Slug(source_reference)

----------------------------------------------------------------------------
(* Inputs of the model *)

KeyA1 == FileHash("a.pdf") \o CHUNK_SEP \o <<"1">>

KeyA2 == FileHash("a.pdf") \o CHUNK_SEP \o <<"2">>

\* a key with two "_chunk_" in it
KeyDouble == KeyA1 \o CHUNK_SEP \o <<"2">>

\* "intro": a legacy key, without "_chunk_"
KeyLegacy == <<"i", "n", "t", "r", "o">>

\* "Chunk 1"
SrcRef == <<"C", "h", "u", "n", "k", " ", "1">>

SrcRef2 == <<"C", "h", "u", "n", "k", " ", "2">>

\* a question text one character longer than what is stored
QLong == [i \in 1..(MaxQuestionLen + 1) |-> "q"]

NoCall == [op |-> "none"]

\* history dicts: the calls completed per key, the entries appended per key
TallyOf(t, key) == IF Has(t, key) THEN Get(t, key) ELSE [n |-> 0, k |-> 0]

HistOf(h, key) == IF Has(h, key) THEN Get(h, key) ELSE <<>>

TallyAfter(t, key, is_correct) ==
    Put(t, key, [n |-> TallyOf(t, key).n + 1,
                 k |-> TallyOf(t, key).k + (IF is_correct THEN 1 ELSE 0)])

HistAfter(h, key, is_correct, question_text, now) ==
    IF question_text # <<>>
    THEN Put(h, key, Append(HistOf(h, key),
                            QuestionEntry(question_text, is_correct, now)))
    ELSE h

----------------------------------------------------------------------------
(* The public calls, each one atomic: load_state, the work, save_state *)

\* record_quiz_answer, lines 59-106
record_quiz_answer(chunk_id, source_reference, is_correct, question_text, filename) ==
    LET now == clock + 1
        key == RecordKey(chunk_id, source_reference)
    IN  /\ state' = save_state(RecordMutate(load_state(state), chunk_id,
                        source_reference, is_correct, question_text, filename, now))
        /\ saves' = saves + 1
        /\ clock' = now
        /\ calls' = calls + 1
        /\ ret' = [op |-> "record_quiz_answer", key |-> key,
                   source_reference |-> source_reference,
                   is_correct |-> is_correct, question_text |-> question_text,
                   filename |-> filename]
        /\ tally' = TallyAfter(tally, key, is_correct)
        /\ hist' = HistAfter(hist, key, is_correct, question_text, now)
        /\ UNCHANGED procs

\* register_file, lines 23-38
RegisterFileCall(filename) ==
    LET r == register_file(state, filename)
    IN  /\ state' = r.state
        /\ saves' = IF r.saved THEN saves + 1 ELSE saves
        /\ calls' = calls + 1
        /\ ret' = [op |-> "register_file", filename |-> filename,
                   value |-> r.value, saved |-> r.saved]
        /\ UNCHANGED <<clock, tally, hist, procs>>

\* backfill_file_mapping_from_chunks, lines 223-244
BackfillCall ==
    LET r == backfill_file_mapping_from_chunks(state)
    IN  /\ state' = r.state
        /\ saves' = IF r.saved THEN saves + 1 ELSE saves
        /\ calls' = calls + 1
        /\ ret' = [op |-> "backfill_file_mapping_from_chunks", saved |-> r.saved]
        /\ UNCHANGED <<clock, tally, hist, procs>>

\* group_chunks_by_file, lines 259-336
GroupChunksByFileCall(all_perf) ==
    LET r == group_chunks_by_file(state, all_perf)
    IN  /\ state' = r.state
        /\ saves' = saves + r.saves
        /\ calls' = calls + 1
        /\ ret' = [op |-> "group_chunks_by_file", all_perf |-> all_perf,
                   value |-> r.value, saves |-> r.saves]
        /\ UNCHANGED <<clock, tally, hist, procs>>

\* a call that only reads: the persisted State stays as it is
ReadCall(r) ==
    /\ ret' = r
    /\ UNCHANGED <<state, saves, clock, calls, tally, hist, procs>>

----------------------------------------------------------------------------
(* Spec: the ledger and the insight engine, one caller *)

LedgerKeys == {KeyA1, <<>>}

LedgerFilenames == {None, "a.pdf"}

QueryKeys == {KeyA1, SrcRef, KeyA2}

Thresholds == {50, 80}

MinAttempts == {1, 2}

Init ==
    /\ state \in {EmptyState, LegacyState}
    /\ saves = 0
    /\ clock = 0
    /\ calls = 0
    /\ ret = NoCall
    /\ tally = <<>>
    /\ hist = <<>>
    /\ procs = <<>>

RecordAnswer ==
    /\ calls < MaxCalls
    /\ \E chunk_id \in LedgerKeys, is_correct \in BOOLEAN, filename \in LedgerFilenames :
          record_quiz_answer(chunk_id, SrcRef, is_correct, <<>>, filename)

ReadChunk ==
    \E chunk_id \in QueryKeys :
        ReadCall([op |-> "get_chunk_performance", chunk_id |-> chunk_id,
                  value |-> get_chunk_performance(load_state(state), chunk_id)])

ReadAll ==
    ReadCall([op |-> "get_all_chunk_performance",
              value |-> get_all_chunk_performance(load_state(state))])

ReadWeak ==
    \E threshold \in Thresholds, min_attempts \in MinAttempts :
        ReadCall([op |-> "get_weak_areas", threshold |-> threshold,
                  min_attempts |-> min_attempts,
                  value |-> get_weak_areas(load_state(state), threshold, min_attempts)])

ReadStrong ==
    \E threshold \in Thresholds, min_attempts \in MinAttempts :
        ReadCall([op |-> "get_strong_areas", threshold |-> threshold,
                  min_attempts |-> min_attempts,
                  value |-> get_strong_areas(load_state(state), threshold, min_attempts)])

ReadSummary ==
    ReadCall([op |-> "get_performance_summary",
              value |-> get_performance_summary(load_state(state))])

Next ==
    \/ RecordAnswer
    \/ ReadChunk
    \/ ReadAll
    \/ ReadWeak
    \/ ReadStrong
    \/ ReadSummary

Spec == Init /\ [][Next]_vars

----------------------------------------------------------------------------
(* Claims checked under Spec *)

\* the record the ledger holds for key, or a record of zeros
RawRecord(st, key) ==
    IF st.has_cp /\ Has(st.chunk_performance, key)
    THEN Get(st.chunk_performance, key)
    ELSE NewRecord(<<>>, None)

TallyAgrees ==
    /\ \A key \in Keys(tally) : state.has_cp /\ Has(state.chunk_performance, key)
    /\ state.has_cp =>
          \A i \in 1..Len(state.chunk_performance) :
              LET rec == state.chunk_performance[i].val
                  t == TallyOf(tally, state.chunk_performance[i].key)
              IN  /\ rec.attempts = rec.correct + rec.incorrect
                  /\ rec.attempts = t.n
                  /\ rec.correct = t.k
                  /\ rec.incorrect = t.n - t.k

RecordStepCounts ==
    (calls' = calls + 1 /\ ret'.op = "record_quiz_answer") =>
        LET before == RawRecord(state, ret'.key)
            after == RawRecord(state', ret'.key)
        IN  /\ after.attempts = before.attempts + 1
            /\ IF ret'.is_correct
               THEN after.correct = before.correct + 1
                    /\ after.incorrect = before.incorrect
               ELSE after.correct = before.correct
                    /\ after.incorrect = before.incorrect + 1

\* C1: after N record_quiz_answer calls for a key, k of them correct, its record
\* shows attempts = N, correct = k, incorrect = N - k (so attempts = correct +
\* incorrect), and each call adds 1 to attempts and to exactly one of
\* correct / incorrect.
C1_LedgerCounts == []TallyAgrees /\ [][RecordStepCounts]_vars

\* three calls on one key, one of them correct
C1_Witness ==
    /\ ret.op = "record_quiz_answer"
    /\ TallyOf(tally, ret.key) = [n |-> 3, k |-> 1]
    /\ RawRecord(state, ret.key).attempts = 3
    /\ RawRecord(state, ret.key).incorrect = 2

AreaKeys(areas) == {areas[i].chunk_id : i \in 1..Len(areas)}

ClaimThresholds == {0, 34, 50, 67, 80, 100, 101}

\* C7: for weak-threshold < strong-threshold and a shared min_attempts, no chunk
\* key is in both get_weak_areas and get_strong_areas of the same ledger, and
\* every entry returned has attempts >= min_attempts.
C7_WeakStrongDisjoint ==
    \A weak \in ClaimThresholds, strong \in ClaimThresholds, m \in MinAttempts :
        weak < strong =>
            LET w == get_weak_areas(state, weak, m)
                s == get_strong_areas(state, strong, m)
            IN  /\ AreaKeys(w) \cap AreaKeys(s) = {}
                /\ \A i \in 1..Len(w) : w[i].attempts >= m
                /\ \A i \in 1..Len(s) : s[i].attempts >= m

\* get_strong_areas returned a chunk while a lower threshold finds a weak one
C7_Witness ==
    /\ ret.op = "get_strong_areas"
    /\ ret.value # <<>>
    /\ \E weak \in Thresholds :
          /\ weak < ret.threshold
          /\ get_weak_areas(state, weak, ret.min_attempts) # <<>>

\* acc is correct / attempts * 100, or 0 when there are no attempts
IsAccuracyOf(acc, correct, attempts) ==
    /\ acc.den > 0
    /\ IF attempts > 0
       THEN acc.num * attempts = correct * 100 * acc.den
       ELSE acc.num = 0

\* the ledger's grand total of a counter
RECURSIVE LedgerTotal(_, _)
LedgerTotal(cp, field) ==
    IF cp = <<>> THEN 0
    ELSE (CASE field = "attempts" -> cp[Len(cp)].val.attempts
            [] field = "correct" -> cp[Len(cp)].val.correct)
         + LedgerTotal(SubSeq(cp, 1, Len(cp) - 1), field)

LedgerOf(st) == IF st.has_cp THEN st.chunk_performance ELSE <<>>

\* C10: the accuracy of get_chunk_performance and get_all_chunk_performance is
\* correct / attempts * 100 when attempts > 0 and 0.0 otherwise, never a division
\* by zero; an absent key or ledger gives zeros; get_performance_summary applies
\* the formula to the grand totals of correct and attempts.
C10_Accuracy ==
    /\ ret.op = "get_chunk_performance" =>
          LET raw == RawRecord(state, ret.chunk_id)
          IN  /\ ret.value.correct = raw.correct
              /\ ret.value.incorrect = raw.incorrect
              /\ ret.value.attempts = raw.attempts
              /\ IsAccuracyOf(ret.value.accuracy, raw.correct, raw.attempts)
              /\ ~Has(LedgerOf(state), ret.chunk_id) =>
                    /\ ret.value.attempts = 0
                    /\ ret.value.correct = 0
                    /\ ret.value.incorrect = 0
                    /\ ret.value.accuracy.num = 0
    /\ ret.op = "get_all_chunk_performance" =>
          /\ Len(ret.value) = Len(LedgerOf(state))
          /\ \A i \in 1..Len(ret.value) :
                LET raw == LedgerOf(state)[i].val
                IN  /\ ret.value[i].key = LedgerOf(state)[i].key
                    /\ IsAccuracyOf(ret.value[i].val.accuracy, raw.correct, raw.attempts)
    /\ ret.op = "get_performance_summary" =>
          IsAccuracyOf(ret.value.overall_accuracy,
                       LedgerTotal(LedgerOf(state), "correct"),
                       LedgerTotal(LedgerOf(state), "attempts"))

\* a summary over two chunks whose mean accuracy is not the accuracy of the totals
C10_Witness ==
    /\ ret.op = "get_performance_summary"
    /\ ret.value.total_chunks = 2
    /\ ret.value.total_attempts = 3
    /\ ret.value.total_correct = 2
    /\ ret.value.overall_accuracy = Frac(200, 3)

----------------------------------------------------------------------------
(* SpecHist: the question history of record_quiz_answer.  The run starts   *)
(* after 0..KeepQuestions earlier calls that stored a question under       *)
(* KeyA1, then makes up to MaxHistCalls calls of any kind.                 *)

HistKeys == {KeyA1, KeyLegacy}

HistTexts == {<<>>, QLong}

\* the State, the clock and the histories after n calls with a question on KeyA1
RECURSIVE Prefilled(_)
Prefilled(n) ==
    IF n = 0
    THEN [state |-> EmptyState, tally |-> <<>>, hist |-> <<>>]
    ELSE LET p == Prefilled(n - 1)
         IN  [state |-> save_state(RecordMutate(load_state(p.state), KeyA1, SrcRef,
                                                TRUE, QLong, None, n)),
              tally |-> TallyAfter(p.tally, KeyA1, TRUE),
              hist |-> HistAfter(p.hist, KeyA1, TRUE, QLong, n)]

InitHist ==
    \E n \in 0..KeepQuestions :
        /\ state = Prefilled(n).state
        /\ tally = Prefilled(n).tally
        /\ hist = Prefilled(n).hist
        /\ saves = n
        /\ clock = n
        /\ calls = 0
        /\ ret = IF n = 0 THEN NoCall
                 ELSE [op |-> "record_quiz_answer", key |-> KeyA1,
                       source_reference |-> SrcRef, is_correct |-> TRUE,
                       question_text |-> QLong, filename |-> None]
        /\ procs = <<>>

HistRecord ==
    /\ calls < MaxHistCalls
    /\ \E chunk_id \in HistKeys, is_correct \in BOOLEAN, question_text \in HistTexts :
          record_quiz_answer(chunk_id, SrcRef, is_correct, question_text, None)

HistRead ==
    \E chunk_id \in HistKeys :
        ReadCall([op |-> "get_chunk_performance", chunk_id |-> chunk_id,
                  value |-> get_chunk_performance(load_state(state), chunk_id)])

NextHist == HistRecord \/ HistRead

SpecHist == InitHist /\ [][NextHist]_vars

\* C2: the questions list of a record never holds more than 10 entries and is
\* the (up to) 10 most recent entries of the calls with a non-empty question
\* text, in call order; a call with an empty question text leaves it unchanged.
C2_QuestionHistory ==
    /\ Keys(hist) \subseteq Keys(LedgerOf(state))
    /\ \A i \in 1..Len(LedgerOf(state)) :
          LET key == LedgerOf(state)[i].key
              qs == LedgerOf(state)[i].val.questions
              all == HistOf(hist, key)
          IN  /\ Len(qs) <= 10
              /\ Len(qs) = Min(10, Len(all))
              /\ \A j \in 1..Len(qs) : qs[j] = all[Len(all) - Len(qs) + j]
              /\ \A j \in 1..Len(qs) : Len(qs[j].question) <= MaxQuestionLen

\* twelve questions were stored under a key and the last call had an empty text
C2_Witness ==
    /\ ret.op = "record_quiz_answer"
    /\ ret.question_text = <<>>
    /\ Len(HistOf(hist, ret.key)) = KeepQuestions + 2
    /\ Len(RawRecord(state, ret.key).questions) = KeepQuestions

----------------------------------------------------------------------------
(* SpecFiles: the file registry beside the ledger, one caller *)

RegistryFilenames == {"a.pdf", "x.pdf", "y.pdf"}

FilesKeys == {KeyA1, KeyA2, KeyLegacy}

FilesFilenames == {None, "", UNKNOWN_FILE, "a.pdf", "b.pdf"}

FilesRegister ==
    /\ calls < MaxFileCalls
    /\ \E filename \in RegistryFilenames : RegisterFileCall(filename)

FilesRecord ==
    /\ calls < MaxFileCalls
    /\ \E chunk_id \in FilesKeys, filename \in FilesFilenames :
          record_quiz_answer(chunk_id, SrcRef, TRUE, <<>>, filename)

FilesBackfill ==
    /\ calls < MaxFileCalls
    /\ BackfillCall

\* the caller passes what get_all_chunk_performance returns
FilesGroup ==
    /\ calls < MaxFileCalls
    /\ GroupChunksByFileCall(get_all_chunk_performance(load_state(state)))

NextFiles == FilesRegister \/ FilesRecord \/ FilesBackfill \/ FilesGroup

SpecFiles == Init /\ [][NextFiles]_vars

RegisterStep == calls' = calls + 1 /\ ret'.op = "register_file"

GroupCallStep == calls' = calls + 1 /\ ret'.op = "group_chunks_by_file"

\* a register_file call returns the identifier of its filename; on an identifier
\* already registered it saves nothing and changes nothing; else it saves once
RegisterIdempotent ==
    RegisterStep =>
        /\ ret'.value = FileHash(ret'.filename)
        /\ IF Has(MappingOf(state), ret'.value)
           THEN state' = state /\ saves' = saves
           ELSE saves' = saves + 1
                /\ Has(MappingOf(state'), ret'.value)
                /\ MappingGet(state', ret'.value) = ret'.filename

\* no step removes or changes an entry of file_mapping
MappingKept ==
    \A h \in Keys(MappingOf(state)) :
        /\ Has(MappingOf(state'), h)
        /\ MappingGet(state', h) = MappingGet(state, h)

\* C3: register_file is idempotent: the same filename gives the same identifier,
\* a call whose identifier is already a key of file_mapping makes no save_state
\* and leaves file_mapping unchanged, and the first filename registered for an
\* identifier is kept.
C3_RegisterIdempotent == [][RegisterIdempotent /\ MappingKept]_vars

\* the second of two register_file calls with one filename: one write in all
C3_Witness ==
    /\ ret.op = "register_file"
    /\ ~ret.saved
    /\ calls = 2
    /\ saves = 1
    /\ MappingGet(state, ret.value) = ret.filename

\* the ledger records of identifier id whose filename is present (a string that is
\* not empty) and not the sentinel
NamedRecords(st, id) ==
    {i \in 1..Len(LedgerOf(st)) :
        /\ Contains(LedgerOf(st)[i].key, CHUNK_SEP)
        /\ SplitHead(LedgerOf(st)[i].key, CHUNK_SEP) = id
        /\ LedgerOf(st)[i].val.filename \notin {None, ""}
        /\ LedgerOf(st)[i].val.filename # "unknown_file"}

LedgerIds(st) ==
    {SplitHead(LedgerOf(st)[i].key, CHUNK_SEP) :
        i \in {j \in 1..Len(LedgerOf(st)) : Contains(LedgerOf(st)[j].key, CHUNK_SEP)}}

\* C5 as stated: a ledger record with key {id}_chunk_{n} and a filename that is
\* present and not "unknown_file", with no file_mapping entry for id, has id
\* mapped to that filename after one group_chunks_by_file call.
C5_Original ==
    [][GroupCallStep =>
          \A id \in LedgerIds(state) :
              ~Has(MappingOf(state), id) =>
                  \A i \in NamedRecords(state, id) :
                      /\ Has(MappingOf(state'), id)
                      /\ MappingGet(state', id) = LedgerOf(state)[i].val.filename]_vars

FirstNamed(st, id) ==
    CHOOSE i \in NamedRecords(st, id) : \A j \in NamedRecords(st, id) : i <= j

ConvergesToFirst ==
    GroupCallStep =>
        \A id \in LedgerIds(state) :
            (~Has(MappingOf(state), id) /\ NamedRecords(state, id) # {}) =>
                /\ Has(MappingOf(state'), id)
                /\ MappingGet(state', id) =
                       LedgerOf(state)[FirstNamed(state, id)].val.filename

\* C5, amended: after one group_chunks_by_file call file_mapping maps id to the
\* filename of the first such record of id in ledger order, and the entry stays
\* as it is on every later call.
C5_Convergence == [][ConvergesToFirst /\ MappingKept]_vars

\* two records of one identifier carry different filenames; the first one's is mapped
C5_Witness ==
    /\ ret.op = "group_chunks_by_file"
    /\ ret.saves = 1
    /\ \E id \in LedgerIds(state) :
          /\ \E i, j \in NamedRecords(state, id) :
                LedgerOf(state)[i].val.filename # LedgerOf(state)[j].val.filename
          /\ MappingGet(state, id) = LedgerOf(state)[FirstNamed(state, id)].val.filename

----------------------------------------------------------------------------
(* SpecAgg: group_chunks_by_file on any all_perf.  The caller's argument   *)
(* is drawn at the start; the registry is filled by register_file.         *)

AggKeys == {KeyA1, KeyDouble, KeyLegacy}

AggFilenames == {None, UNKNOWN_FILE, "a.pdf"}

\* the metrics of a chunk never attempted and of one with 1 of 2 answers correct
AggMetrics ==
    {Metrics(NewRecord(SrcRef, filename)) : filename \in AggFilenames}
    \cup {Metrics([NewRecord(SrcRef, filename) EXCEPT
                       !.attempts = 2, !.correct = 1, !.incorrect = 1,
                       !.last_attempt = 1]) : filename \in AggFilenames}

AggEntries == {[key |-> k, val |-> m] : k \in AggKeys, m \in AggMetrics}

\* the dicts of at most MaxPerf entries
PerfInputs ==
    UNION {{d \in [1..n -> AggEntries] :
               \A i, j \in 1..n : i # j => d[i].key # d[j].key} : n \in 0..MaxPerf}

InitAgg ==
    /\ state \in {EmptyState, LegacyState}
    /\ saves = 0
    /\ clock = 0
    /\ calls = 0
    /\ ret = NoCall
    /\ tally = <<>>
    /\ hist = <<>>
    /\ \E all_perf \in PerfInputs :
          procs = <<[op |-> "group_chunks_by_file", all_perf |-> all_perf]>>

AggRegister ==
    /\ calls < MaxAggCalls
    /\ \E filename \in {"a.pdf", "b.pdf"} : RegisterFileCall(filename)

AggGroup ==
    /\ calls < MaxAggCalls
    /\ GroupChunksByFileCall(procs[1].all_perf)

NextAgg == AggRegister \/ AggGroup

SpecAgg == InitAgg /\ [][NextAgg]_vars

\* the bucket of a chunk key: the text before its first "_chunk_", else "unknown"
BucketOf(chunk_id) ==
    LET at == {i \in 1..(Len(chunk_id) - 6) :
                  SubSeq(chunk_id, i, i + 6) = <<"_", "c", "h", "u", "n", "k", "_">>}
    IN  IF at = {} THEN <<"u", "n", "k", "n", "o", "w", "n">>
        ELSE SubSeq(chunk_id, 1, (CHOOSE i \in at : \A j \in at : i <= j) - 1)

RECURSIVE RollupTotal(_, _)
RollupTotal(files, field) ==
    IF files = <<>> THEN 0
    ELSE (CASE field = "attempts" -> Head(files).val.total_attempts
            [] field = "correct" -> Head(files).val.total_correct
            [] field = "incorrect" -> Head(files).val.total_incorrect)
         + RollupTotal(Tail(files), field)

RECURSIVE PerfTotal(_, _)
PerfTotal(all_perf, field) ==
    IF all_perf = <<>> THEN 0
    ELSE (CASE field = "attempts" -> Head(all_perf).val.attempts
            [] field = "correct" -> Head(all_perf).val.correct
            [] field = "incorrect" -> Head(all_perf).val.incorrect)
         + PerfTotal(Tail(all_perf), field)

\* C4: group_chunks_by_file partitions the chunk keys of all_perf: each is in the
\* chunks map of exactly one rollup, the one of the text before its first
\* "_chunk_" or of "unknown"; the rollups' total_attempts, total_correct and
\* total_incorrect add up to the sums over all_perf.
C4_Partition ==
    ret.op = "group_chunks_by_file" =>
        LET all_perf == ret.all_perf
            files == ret.value
        IN  /\ \A i \in 1..Len(all_perf) :
                  /\ Cardinality({j \in 1..Len(files) :
                         Has(files[j].val.chunks, all_perf[i].key)}) = 1
                  /\ \E j \in 1..Len(files) :
                        /\ files[j].key = BucketOf(all_perf[i].key)
                        /\ files[j].val.file_hash = BucketOf(all_perf[i].key)
                        /\ Has(files[j].val.chunks, all_perf[i].key)
                        /\ Get(files[j].val.chunks, all_perf[i].key) = all_perf[i].val
            /\ \A j \in 1..Len(files) :
                  /\ Keys(files[j].val.chunks) \subseteq Keys(all_perf)
                  /\ Len(files[j].val.chunks) = Cardinality(Keys(files[j].val.chunks))
            /\ RollupTotal(files, "attempts") = PerfTotal(all_perf, "attempts")
            /\ RollupTotal(files, "correct") = PerfTotal(all_perf, "correct")
            /\ RollupTotal(files, "incorrect") = PerfTotal(all_perf, "incorrect")

\* two attempted chunks of one file and a legacy chunk were grouped
C4_Witness ==
    /\ ret.op = "group_chunks_by_file"
    /\ Len(ret.all_perf) = 2
    /\ Len(ret.value) = 1
    /\ ret.value[1].val.total_attempts = 4
    /\ Keys(ret.value[1].val.chunks) = {KeyA1, KeyDouble}

\* C6 as stated: no rollup of group_chunks_by_file has the filename
\* "unknown_file", and neither backfill nor the write-back stores "unknown_file"
\* as a file_mapping value.
C6_Original ==
    /\ ret.op = "group_chunks_by_file" =>
          \A j \in 1..Len(ret.value) : ret.value[j].val.filename # "unknown_file"
    /\ \A h \in Keys(MappingOf(state)) : MappingGet(state, h) # "unknown_file"

----------------------------------------------------------------------------
(* SpecRef: extract_chunk_id_from_reference on source references built     *)
(* from a few pieces, the key it returns recorded and then grouped.  The   *)
(* caller's arguments are drawn at the start.                              *)

\* a run of characters that leaves 4 of the 50 characters of a slug
Pad == [i \in 1..(SlugLen - 4) |-> "x"]

Pieces ==
    {<<" ">>, <<"_">>, <<"c", "h", "u", "n", "k">>, <<"C", "h", "u", "n", "k">>,
     <<"7">>, <<"X">>, Pad}

RECURSIVE Flatten(_)
Flatten(ps) == IF ps = <<>> THEN <<>> ELSE Head(ps) \o Flatten(Tail(ps))

RefInputs == {Flatten(ps) : ps \in UNION {[1..n -> Pieces] : n \in 0..MaxPieces}}

RefFilenames == {None, "", "a.pdf"}

InitRef ==
    /\ state = EmptyState
    /\ saves = 0
    /\ clock = 0
    /\ calls = 0
    /\ ret = NoCall
    /\ tally = <<>>
    /\ hist = <<>>
    /\ \E source_reference \in RefInputs, filename \in RefFilenames :
          procs = <<[op |-> "extract_chunk_id_from_reference",
                     source_reference |-> source_reference,
                     filename |-> filename]>>

RefExtract ==
    ReadCall([op |-> "extract_chunk_id_from_reference",
              source_reference |-> procs[1].source_reference,
              filename |-> procs[1].filename,
              value |-> extract_chunk_id_from_reference(procs[1].source_reference,
                                                    procs[1].filename)])

\* the caller records an answer under the key it extracted
RefRecord ==
    /\ calls < MaxRefCalls
    /\ ret.op = "extract_chunk_id_from_reference"
    /\ record_quiz_answer(ret.value, procs[1].source_reference, TRUE, <<>>,
                        procs[1].filename)

RefGroup ==
    /\ calls < MaxRefCalls
    /\ ret.op = "record_quiz_answer"
    /\ GroupChunksByFileCall(get_all_chunk_performance(load_state(state)))

NextRef == RefExtract \/ RefRecord \/ RefGroup

SpecRef == InitRef /\ [][NextRef]_vars

HasChunkSep(s) ==
    \E i \in 1..(Len(s) - 6) :
        SubSeq(s, i, i + 6) = <<"_", "c", "h", "u", "n", "k", "_">>

\* s holds "Chunk" or "chunk", then spaces or none, then a digit
HasChunkNumber(s) ==
    \E i \in 1..Len(s), j \in 1..Len(s) :
        /\ i + 5 <= j
        /\ SubSeq(s, i, i + 4) \in {<<"C", "h", "u", "n", "k">>,
                                    <<"c", "h", "u", "n", "k">>}
        /\ \A m \in (i + 5)..(j - 1) : s[m] = " "
        /\ s[j] = "7"

\* v is s with spaces turned to underscores and upper case to lower case
IsSlugOf(v, s) ==
    /\ Len(v) = Len(s)
    /\ \A i \in 1..Len(s) :
          v[i] = (CASE s[i] = " " -> "_"
                    [] s[i] = "C" -> "c"
                    [] s[i] = "X" -> "x"
                    [] OTHER -> s[i])

\* C9 as stated: without a filename extract_chunk_id_from_reference returns the
\* slug of the first 50 characters, which holds no "_chunk_", so that
\* group_chunks_by_file puts the key in the "unknown" bucket; with a filename it
\* returns {identifier}_chunk_{number}, the number "unknown" when none is found.
C9_Original ==
    /\ (ret.op = "extract_chunk_id_from_reference" /\ ~Truthy(ret.filename)) =>
          /\ IsSlugOf(ret.value, SubSeq(ret.source_reference, 1,
                                        Min(50, Len(ret.source_reference))))
          /\ ~HasChunkSep(ret.value)
    /\ (ret.op = "extract_chunk_id_from_reference" /\ Truthy(ret.filename)) =>
          \E number \in {<<"7">>, <<"7", "7">>, <<"7", "7", "7">>, UNKNOWN} :
              /\ ret.value = FileHash(ret.filename) \o CHUNK_SEP \o number
              /\ number = UNKNOWN <=> ~HasChunkNumber(ret.source_reference)
    /\ (ret.op = "group_chunks_by_file" /\ ~Truthy(procs[1].filename)) =>
          \A j \in 1..Len(ret.value) : ret.value[j].key = UNKNOWN

----------------------------------------------------------------------------
(* SpecConc: two callers of one user.  A call is two steps, its load_state *)
(* and, later, its mutation and save_state; the other caller's steps may   *)
(* come between them.                                                      *)

Callers == {1, 2}

ConcKeys == {KeyA1, KeyLegacy}

Idle == [pc |-> "idle"]

InitConc ==
    /\ state \in {EmptyState, LegacyState}
    /\ saves = 0
    /\ clock = 0
    /\ calls = 0
    /\ ret = NoCall
    /\ tally = <<>>
    /\ hist = <<>>
    /\ procs = <<Idle, Idle>>

\* record_quiz_answer, line 59
ConcLoadRecord(p) ==
    /\ procs[p].pc = "idle"
    /\ calls < MaxConcCalls
    /\ \E chunk_id \in ConcKeys, is_correct \in BOOLEAN :
          procs' = [procs EXCEPT ![p] =
                       [pc |-> "loaded", op |-> "record_quiz_answer",
                        chunk_id |-> chunk_id, is_correct |-> is_correct,
                        local |-> load_state(state)]]
    /\ calls' = calls + 1
    /\ UNCHANGED <<state, saves, clock, ret, tally, hist>>

\* record_quiz_answer, lines 62-102, were the State read again before the save
ConcSaveRecordFresh(p) ==
    /\ procs[p].pc = "loaded"
    /\ procs[p].op = "record_quiz_answer"
    /\ state' = save_state(RecordMutate(load_state(state), procs[p].chunk_id, SrcRef,
                               procs[p].is_correct, <<>>, None, clock + 1))
    /\ saves' = saves + 1
    /\ clock' = clock + 1
    /\ ret' = [op |-> "record_quiz_answer", key |-> procs[p].chunk_id,
               source_reference |-> SrcRef, is_correct |-> procs[p].is_correct,
               question_text |-> <<>>, filename |-> None]
    /\ tally' = TallyAfter(tally, procs[p].chunk_id, procs[p].is_correct)
    /\ procs' = [procs EXCEPT ![p] = Idle]
    /\ UNCHANGED <<calls, hist>>

\* record_quiz_answer, lines 62-102
ConcSaveRecord(p) ==
    /\ procs[p].pc = "loaded"
    /\ procs[p].op = "record_quiz_answer"
    /\ state' = save_state(RecordMutate(procs[p].local, procs[p].chunk_id, SrcRef,
                               procs[p].is_correct, <<>>, None, clock + 1))
    /\ saves' = saves + 1
    /\ clock' = clock + 1
    /\ ret' = [op |-> "record_quiz_answer", key |-> procs[p].chunk_id,
               source_reference |-> SrcRef, is_correct |-> procs[p].is_correct,
               question_text |-> <<>>, filename |-> None]
    /\ tally' = TallyAfter(tally, procs[p].chunk_id, procs[p].is_correct)
    /\ procs' = [procs EXCEPT ![p] = Idle]
    /\ UNCHANGED <<calls, hist>>

\* register_file, line 23
ConcLoadRegister(p) ==
    /\ procs[p].pc = "idle"
    /\ calls < MaxConcCalls
    /\ procs' = [procs EXCEPT ![p] =
                    [pc |-> "loaded", op |-> "register_file",
                     filename |-> "a.pdf", local |-> load_state(state)]]
    /\ calls' = calls + 1
    /\ UNCHANGED <<state, saves, clock, ret, tally, hist>>

\* register_file, lines 26-38
ConcSaveRegister(p) ==
    /\ procs[p].pc = "loaded"
    /\ procs[p].op = "register_file"
    /\ LET r == register_file(procs[p].local, procs[p].filename)
       IN  /\ state' = IF r.saved THEN r.state ELSE state
           /\ saves' = IF r.saved THEN saves + 1 ELSE saves
           /\ ret' = [op |-> "register_file", filename |-> procs[p].filename,
                      value |-> r.value, saved |-> r.saved]
    /\ procs' = [procs EXCEPT ![p] = Idle]
    /\ UNCHANGED <<clock, calls, tally, hist>>

NextConc ==
    \E p \in Callers :
        \/ ConcLoadRecord(p)
        \/ ConcSaveRecord(p)
        \/ ConcLoadRegister(p)
        \/ ConcSaveRegister(p)

SpecConc == InitConc /\ [][NextConc]_vars

Finishes(p, op) ==
    /\ procs[p].pc = "loaded"
    /\ procs[p].op = op
    /\ procs'[p].pc = "idle"

\* the persisted State after a record_quiz_answer save is the saver's snapshot
\* with its own answer counted, whatever was persisted in between
RecordSaveIsSnapshot(p) ==
    Finishes(p, "record_quiz_answer") =>
        LET snap == procs[p].local
            key == procs[p].chunk_id
        IN  /\ MappingOf(state') = MappingOf(snap)
            /\ Keys(LedgerOf(state')) = Keys(LedgerOf(snap)) \cup {key}
            /\ \A k \in Keys(LedgerOf(snap)) \ {key} :
                  RawRecord(state', k) = RawRecord(snap, k)
            /\ RawRecord(state', key).attempts = RawRecord(snap, key).attempts + 1
            /\ RawRecord(state', key).correct + RawRecord(state', key).incorrect
                   = RawRecord(snap, key).correct + RawRecord(snap, key).incorrect + 1

\* a register_file save persists the saver's snapshot with the one entry added;
\* without a save the persisted State is untouched
RegisterSaveIsSnapshot(p) ==
    Finishes(p, "register_file") =>
        LET snap == procs[p].local
            h == FileHash(procs[p].filename)
        IN  IF Has(MappingOf(snap), h)
            THEN state' = state /\ saves' = saves
            ELSE /\ LedgerOf(state') = LedgerOf(snap)
                 /\ state'.has_cp = snap.has_cp
                 /\ Keys(MappingOf(state')) = Keys(MappingOf(snap)) \cup {h}
                 /\ \A k \in Keys(MappingOf(snap)) :
                       MappingGet(state', k) = MappingGet(snap, k)
                 /\ MappingGet(state', h) = procs[p].filename

LoadKeepsState ==
    (\E p \in Callers : procs[p].pc = "idle" /\ procs'[p].pc = "loaded") =>
        state' = state

\* C8: each mutating operation is an unprotected load / mutate / save of the
\* whole snapshot: what a save persists is the saver's own snapshot with its own
\* change, so when two operations interleave the earlier saver's change is lost
\* (last writer wins), and no persisted State is anything but one caller's
\* full snapshot.
C8_LastWriterWins ==
    [][/\ \A p \in Callers : RecordSaveIsSnapshot(p) /\ RegisterSaveIsSnapshot(p)
       /\ LoadKeepsState]_vars

\* two record_quiz_answer calls on a key are done and attempts is 1; register_file
\* saved in between and its file_mapping entry is gone
C8_Witness ==
    /\ \E key \in ConcKeys :
          /\ TallyOf(tally, key).n = 2
          /\ RawRecord(state, key).attempts = 1
    /\ saves = 3
    /\ MappingOf(state) = <<>>
    /\ \A p \in Callers : procs[p].pc = "idle"

----------------------------------------------------------------------------
(* SpecFrame: what record_quiz_answer leaves alone in a record.  One       *)
(* caller; the arguments of its first call are drawn at the start and kept *)
(* in procs, the later calls take any key, source_reference and filename.  *)

FrameKeys == {KeyA1, <<>>}

FrameRefs == {SrcRef, SrcRef2}

FrameFilenames == {None, "", UNKNOWN_FILE, "a.pdf", "b.pdf"}

FrameArgs ==
    [chunk_id : FrameKeys, source_reference : FrameRefs, filename : FrameFilenames]

InitFrame ==
    /\ state \in {EmptyState, LegacyState}
    /\ saves = 0
    /\ clock = 0
    /\ calls = 0
    /\ ret = NoCall
    /\ tally = <<>>
    /\ hist = <<>>
    /\ procs \in {<<a>> : a \in FrameArgs}

\* the first call of the run
FrameFirst ==
    /\ calls = 0
    /\ record_quiz_answer(procs[1].chunk_id, procs[1].source_reference, TRUE,
                          <<>>, procs[1].filename)

\* a later call
FrameRecord ==
    /\ calls > 0
    /\ calls < MaxFrameCalls
    /\ \E a \in FrameArgs :
          record_quiz_answer(a.chunk_id, a.source_reference, TRUE, <<>>, a.filename)

NextFrame == FrameFirst \/ FrameRecord

SpecFrame == InitFrame /\ [][NextFrame]_vars

FirstKey == RecordKey(procs[1].chunk_id, procs[1].source_reference)

\* a filename is present when it is a non-empty string (the test of line 79)
Present(filename) == filename # None /\ filename # ""

\* the record of the first call's key still carries that call's
\* source_reference, and that call's filename when it supplied one
FirstCallKept ==
    calls > 0 =>
        /\ Has(LedgerOf(state), FirstKey)
        /\ RawRecord(state, FirstKey).source_reference = procs[1].source_reference
        /\ Present(procs[1].filename) =>
              RawRecord(state, FirstKey).filename = procs[1].filename

\* a call on a key that has a record keeps its source_reference, and changes
\* its filename only when none is present and the call supplies one; a call
\* on a new key seeds source_reference; the other records keep both fields
RecordStepFrame ==
    (calls' = calls + 1 /\ ret'.op = "record_quiz_answer") =>
        LET before == RawRecord(state, ret'.key)
            after == RawRecord(state', ret'.key)
        IN  /\ Has(LedgerOf(state'), ret'.key)
            /\ IF Has(LedgerOf(state), ret'.key)
               THEN /\ after.source_reference = before.source_reference
                    /\ after.filename # before.filename =>
                          /\ ~Present(before.filename)
                          /\ Present(ret'.filename)
                    /\ Present(before.filename) => after.filename = before.filename
               ELSE after.source_reference = ret'.source_reference
            /\ \A key \in Keys(LedgerOf(state)) \ {ret'.key} :
                  /\ RawRecord(state', key).source_reference
                        = RawRecord(state, key).source_reference
                  /\ RawRecord(state', key).filename = RawRecord(state, key).filename

\* C11: record_quiz_answer on a key that already has a record changes the
\* record's filename only if the current filename is absent and a filename is
\* supplied, and never changes source_reference: across any sequence of calls
\* on one key, source_reference stays the value given by the first call and a
\* filename that is already present is never replaced by a later call's.
C11_FrameEffect == []FirstCallKept /\ [][RecordStepFrame]_vars

\* the first call made the record without a filename, the second filled in
\* "a.pdf", the third came with another source_reference and "b.pdf": the
\* record keeps the first source_reference and "a.pdf"
C11_Witness ==
    /\ calls = 3
    /\ procs[1].chunk_id = KeyA1
    /\ procs[1].filename = None
    /\ ret.op = "record_quiz_answer"
    /\ ret.key = KeyA1
    /\ ret.filename = "b.pdf"
    /\ ret.source_reference # procs[1].source_reference
    /\ TallyOf(tally, KeyA1).n = 3
    /\ RawRecord(state, KeyA1).filename = "a.pdf"
    /\ RawRecord(state, KeyA1).source_reference = procs[1].source_reference

=============================================================================
